---- MODULE Spec2Model ----
(***************************************************************************)
(* Model of UploadManager (src/src/index.ts): the multer-backed upload     *)
(* middleware that filters multipart file parts, derives resized and/or    *)
(* compressed images with sharp, writes them to disk and reports the       *)
(* records through a Node-style callback.                                  *)
(*                                                                         *)
(* Strings are sequences of one-character strings so that substring tests, *)
(* split(".") and template-literal concatenation are computed, not assumed.*)
(***************************************************************************)
EXTENDS Integers, Sequences, FiniteSets, TLC

\* ------------------------------------------------------------------ bounds
\* Longest decoded request (number of file parts).
MaxFiles == 2
\* Number of seconds the wall clock may advance during a run.
MaxTicks == 1

\* ----------------------------------------------------------------- strings
DigitChars == <<"0", "1", "2", "3", "4", "5", "6", "7", "8", "9">>

RECURSIVE Digits(_)
\* Decimal text of a natural number, as `${n}` formats it.
Digits(n) ==
  IF n < 10 THEN <<DigitChars[n + 1]>>
  ELSE Digits(n \div 10) \o <<DigitChars[(n % 10) + 1]>>

\* s.startsWith(p)
StartsWith(s, p) ==
  /\ Len(p) <= Len(s)
  /\ SubSeq(s, 1, Len(p)) = p

\* Whether p occurs in s (an unanchored RegExp of a literal).
Contains(s, p) ==
  \E i \in 1..(Len(s) - Len(p) + 1) : SubSeq(s, i, i + Len(p) - 1) = p

\* Index of the last "." of s, 0 when there is none.
LastDot(s) ==
  IF \E i \in 1..Len(s) : s[i] = "."
  THEN CHOOSE i \in 1..Len(s) :
         /\ s[i] = "."
         /\ \A j \in (i + 1)..Len(s) : s[j] # "."
  ELSE 0

\* s.split(".").pop(): the text after the last ".", the whole of s without one.
SplitPop(s) == SubSeq(s, LastDot(s) + 1, Len(s))

\* --------------------------------------------------------- nullable values
Null == [null |-> TRUE, val |-> <<>>]
Some(v) == [null |-> FALSE, val |-> v]

\* ------------------------------------------------------------------- paths
\* A path is [abs, segs]; the empty relative path is the empty string.
EmptyPath == [abs |-> FALSE, segs |-> <<>>]
AbsPath(segs) == [abs |-> TRUE, segs |-> segs]
RelPath(segs) == [abs |-> FALSE, segs |-> segs]

\* process.cwd() and __dirname of the running module.
Cwd == AbsPath(<<"srv", "app">>)
DirName == AbsPath(<<"srv", "app", "node_modules", "smart-optimizer", "dist">>)

RECURSIVE Normalize(_, _)
\* Folds "." and ".." of the segments todo onto the absolute segments done.
Normalize(done, todo) ==
  IF todo = <<>> THEN done
  ELSE IF Head(todo) = "." THEN Normalize(done, Tail(todo))
  ELSE IF Head(todo) = ".."
    THEN Normalize(IF done = <<>> THEN done ELSE SubSeq(done, 1, Len(done) - 1),
                   Tail(todo))
  ELSE Normalize(Append(done, Head(todo)), Tail(todo))

RECURSIVE ResolveFrom(_, _)
\* path.resolve over the sequence ps, starting at the absolute segments cur.
ResolveFrom(cur, ps) ==
  IF ps = <<>> THEN cur
  ELSE ResolveFrom(IF Head(ps).abs THEN Normalize(<<>>, Head(ps).segs)
                   ELSE Normalize(cur, Head(ps).segs),
                   Tail(ps))

\* path.resolve(a, b): an absolute directory; relative arguments start at cwd.
ResolveDir(a, b) == AbsPath(ResolveFrom(Cwd.segs, <<a, b>>))

\* path.resolve(a, b, fileName) for a fileName without separators.
Resolve(a, b, fileName) == [dir |-> ResolveDir(a, b).segs, name |-> fileName]

NoDestination == [dir |-> <<>>, name |-> <<>>]

\* ----------------------------------------------------------------- options
\* options.imageQuality ?? 80
DefaultImageQuality == 80

\* The k-th resize ratio the instance may be configured with.
Size(i) == <<i, i + 1>>
\* Longest fileResizeRatio list.
MaxSizes == 2

ResizeRatioInputs ==
  {Null} \cup {Some([i \in 1..n |-> Size(i)]) : n \in 0..MaxSizes}

\* The options objects handed to the constructor.
RawOptions ==
  [fileCompression : BOOLEAN,
   fileResizeRatio : ResizeRatioInputs,
   allowExtension  : {Null},
   imageQuality    : {Null, Some(70)},
   basePath        : {EmptyPath, AbsPath(<<"data">>)},
   localPath       : {EmptyPath, RelPath(<<"uploads">>)}]

\* constructor: this.options with the defaults applied.
Constructor(options) ==
  [fileCompression |-> options.fileCompression,
   fileResizeRatio |-> options.fileResizeRatio,
   allowExtension  |-> options.allowExtension,
   imageQuality    |-> IF options.imageQuality.null THEN DefaultImageQuality
                       ELSE options.imageQuality.val,
   basePath        |-> IF options.basePath = EmptyPath THEN Cwd
                       ELSE options.basePath,
   localPath       |-> IF options.localPath = EmptyPath
                       THEN RelPath(<<"..", "public">>)
                       ELSE options.localPath]

\* ----------------------------------------------------------------- buffers
\* A Buffer holding an encoded raster: whose picture it is, its encoding,
\* its pixel size, the encoder quality and how many times it was re-encoded.
Picture(content, format) ==
  [content |-> content, format |-> format, width |-> 5, height |-> 5,
   quality |-> 100, gen |-> 0]

NoBuffer == [content |-> "", format |-> "", width |-> 0, height |-> 0,
             quality |-> 0, gen |-> 0]

\* sharp(buffer).resize({width, height}).jpeg({quality}).toBuffer()
SharpResizeJpeg(buffer, size, imageQuality) ==
  [buffer EXCEPT !.format = "jpeg", !.width = size[1], !.height = size[2],
                 !.quality = imageQuality, !.gen = @ + 1]

\* sharp(buffer).jpeg({quality}).toBuffer()
SharpJpeg(buffer, imageQuality) ==
  [buffer EXCEPT !.format = "jpeg", !.quality = imageQuality, !.gen = @ + 1]

\* sharp(buffer).resize({width, height}).toBuffer(): the input's encoding is kept.
SharpResize(buffer, size) ==
  [buffer EXCEPT !.width = size[1], !.height = size[2], !.gen = @ + 1]

\* .jpeg({quality}) throws unless quality is an integer between 1 and 100.
JpegAccepts(imageQuality) == imageQuality \in 1..100

\* sharp(buffer).toFile("*.jpeg"): the pipeline decodes the input and encodes
\* it in the format of the destination's extension, at sharp's default
\* JPEG quality (80); these are the bytes that reach the disk.
SharpToFile(buffer) ==
  [buffer EXCEPT !.format = "jpeg", !.quality = 80, !.gen = @ + 1]

\* ------------------------------------------------------------------- parts
\* The file parts multer's memory storage may decode from a request.
PartPng ==
  [fieldname |-> <<"a">>, originalname |-> <<"x", ".", "p", "n", "g">>,
   encoding |-> "7bit",
   mimetype |-> <<"i", "m", "a", "g", "e", "/", "p", "n", "g">>,
   buffer |-> Picture("x", "png")]

\* A second image uploaded under the same field name (an array field).
PartJpg ==
  [fieldname |-> <<"a">>, originalname |-> <<"y", ".", "j", "p", "g">>,
   encoding |-> "7bit",
   mimetype |-> <<"i", "m", "a", "g", "e", "/", "j", "p", "e", "g">>,
   buffer |-> Picture("y", "jpeg")]

\* A part whose name passes the filter but whose type is not an image.
PartText ==
  [fieldname |-> <<"c">>, originalname |-> <<"n", ".", "p", "n", "g">>,
   encoding |-> "7bit",
   mimetype |-> <<"t", "e", "x", "t", "/", "p", "l", "a", "i", "n">>,
   buffer |-> Picture("n", "text")]

\* A part the default allow-list rejects.
PartGif ==
  [fieldname |-> <<"d">>, originalname |-> <<"z", ".", "g", "i", "f">>,
   encoding |-> "7bit",
   mimetype |-> <<"i", "m", "a", "g", "e", "/", "g", "i", "f">>,
   buffer |-> Picture("z", "gif")]

Parts == {PartPng, PartJpg, PartText, PartGif}

\* An image sent with an upper-case extension and a generic type.
PartUpper ==
  [fieldname |-> <<"e">>, originalname |-> <<"Q", ".", "P", "N", "G">>,
   encoding |-> "7bit",
   mimetype |-> <<"a", "p", "p", "l", "i", "c", "a", "t", "i", "o", "n", "/",
                  "o", "c", "t", "e", "t", "-", "s", "t", "r", "e", "a", "m">>,
   buffer |-> Picture("q", "png")]

\* A document.
PartPdf ==
  [fieldname |-> <<"f">>, originalname |-> <<"r", ".", "p", "d", "f">>,
   encoding |-> "7bit",
   mimetype |-> <<"a", "p", "p", "l", "i", "c", "a", "t", "i", "o", "n", "/",
                  "p", "d", "f">>,
   buffer |-> Picture("r", "pdf")]

\* Every request body of at most MaxFiles parts.
PartSeqs == UNION {[1..n -> Parts] : n \in 0..MaxFiles}

\* ------------------------------------------------------------- fileFilter
DefaultExtensions == {<<"j", "p", "e", "g">>, <<"j", "p", "g">>, <<"p", "n", "g">>}

\* new RegExp(`(${extensions.join("|")})`).test(text)
FiletypesTest(extensions, text) == \E e \in extensions : Contains(text, e)

\* The alternatives of `(${extensions.join("|")})` for an array of
\* alphanumeric entries: the entries, and for an empty array the empty
\* pattern "()", which occurs in every text.
Alternatives(extensions) ==
  IF extensions = <<>> THEN {<<>>}
  ELSE {extensions[i] : i \in DOMAIN extensions}

\* fileFilter: TRUE for cb(null, true), FALSE for cb({data: {}, code: 400}).
FileFilter(options, file) ==
  LET extensions == IF options.allowExtension.null THEN DefaultExtensions
                    ELSE Alternatives(options.allowExtension.val)
      extname  == FiletypesTest(extensions, SplitPop(file.originalname))
      mimetype == FiletypesTest(extensions, file.mimetype)
  IN  mimetype \/ extname

\* -------------------------------------------------------------- the errors
NoError == [type |-> "null", code |-> 0]
\* cb({ data: {}, code: 400 }) of fileFilter
InvalidFileType == [type |-> "object", code |-> 400]
\* A MulterError of the decoder (malformed body, a limit exceeded).
DecoderError == [type |-> "MulterError", code |-> 0]
\* What sharp rejects with (input not decodable, encoder or write failure).
SharpError == [type |-> "Error", code |-> 0]
\* What a throwing callback throws.
CallbackError == [type |-> "thrown", code |-> 0]

\* One invocation callback(err, data).
CallbackErr(err) == [err |-> err, hasData |-> FALSE, data |-> <<>>, code |-> 0]
CallbackOk(data) == [err |-> NoError, hasData |-> TRUE, data |-> data, code |-> 200]

\* ----------------------------------------------------------- multer decode
\* A multer file of req.files: the decoded part, filename/destination unset.
MulterFile(part) ==
  [fieldname |-> part.fieldname, originalname |-> part.originalname,
   encoding |-> part.encoding, mimetype |-> part.mimetype,
   buffer |-> part.buffer, filename |-> <<>>, destination |-> NoDestination,
   contenttype |-> <<>>]

\* Whether upload.any() ends with the filter's error: some part is rejected.
FilterRejects(options, parts) ==
  \E i \in 1..Len(parts) : ~FileFilter(options, parts[i])

\* ------------------------------------------------------------ processImage
IsImage(file) == StartsWith(file.mimetype, <<"i", "m", "a", "g", "e", "/">>)

\* `${file.fieldname}_${moment().unix()}.jpeg`
SingleName(file, unix) ==
  file.fieldname \o <<"_">> \o Digits(unix) \o <<".", "j", "p", "e", "g">>

\* `${file.fieldname}_${width}x${height}_${moment().unix()}.jpeg`
SizedName(file, size, unix) ==
  file.fieldname \o <<"_">> \o Digits(size[1]) \o <<"x">> \o Digits(size[2])
    \o <<"_">> \o Digits(unix) \o <<".", "j", "p", "e", "g">>

\* `${file.fieldname}_${moment().unix()}.${file.originalname.split(".").pop()}`
PassThroughName(file, unix) ==
  file.fieldname \o <<"_">> \o Digits(unix) \o <<".">> \o SplitPop(file.originalname)

\* The destination processImage first gives the file.
SingleDestination(options, fileName) ==
  Resolve(options.basePath, options.localPath, fileName)

\* The destination a loop iteration gives the file.
SizedDestination(options, fileName) ==
  Resolve(DirName, ResolveDir(DirName, options.localPath), fileName)

\* The branch of processImage the options select.
Branch(options) ==
  IF options.fileCompression /\ ~options.fileResizeRatio.null THEN "compressResize"
  ELSE IF ~options.fileResizeRatio.null THEN "resize"
  ELSE IF options.fileCompression THEN "compress"
  ELSE "passthrough"

InLoop(options) == Branch(options) \in {"compressResize", "resize"}

\* Mutant of EnterProcessImage: the file is also retyped as the JPEG it becomes.
EnterProcessImageRetyped(options, file, unix) ==
  [file EXCEPT !.filename = SingleName(file, unix),
               !.destination = SingleDestination(options, SingleName(file, unix)),
               !.mimetype = <<"i", "m", "a", "g", "e", "/", "j", "p", "e", "g">>]

\* The head of processImage: the file named and given its destination.
EnterProcessImage(options, file, unix) ==
  [file EXCEPT !.filename = SingleName(file, unix),
               !.destination = SingleDestination(options, SingleName(file, unix))]

\* Mutant of EnterIteration: file.buffer is not reset to bufferData.
EnterIterationNoReset(options, file, size, bufferData, unix) ==
  [file EXCEPT !.filename = SizedName(file, size, unix),
               !.destination = SizedDestination(options, SizedName(file, size, unix))]

\* The head of one loop iteration, up to the transform's await.
EnterIteration(options, file, size, bufferData, unix) ==
  [file EXCEPT !.filename = SizedName(file, size, unix),
               !.destination = SizedDestination(options, SizedName(file, size, unix)),
               !.buffer = bufferData]

\* The buffer the branch's transform leaves in file.buffer.
Transform(options, file, size) ==
  CASE Branch(options) = "compressResize" ->
         SharpResizeJpeg(file.buffer, size, options.imageQuality)
    [] Branch(options) = "resize" -> SharpResize(file.buffer, size)
    [] Branch(options) = "compress" -> SharpJpeg(file.buffer, options.imageQuality)
    [] OTHER -> file.buffer

\* The FileData record pushed for the file as it is now.
FileData(file) ==
  [fieldname |-> file.fieldname, originalname |-> file.originalname,
   encoding |-> file.encoding, mimetype |-> file.mimetype,
   filename |-> file.filename, destination |-> file.destination]

\* ------------------------------------------------------------------- state
VARIABLES
  options,  \* this.options of the one UploadManager instance
  now,      \* moment().unix(): the wall clock in seconds
  disk,     \* the files on disk: a set of [destination, bytes]
  req       \* per uploadFiles call: its request and the closure's locals

vars == <<options, now, disk, req>>

\* A call before upload.any() has run: body is the multipart body received.
IdleCall(body) ==
  [pc |-> "idle", body |-> body, files |-> <<>>, fi |-> 1, si |-> 1,
   bufferData |-> NoBuffer, uploadDataList |-> <<>>,
   uploadedImageDataArr |-> <<>>, calls |-> <<>>, writes |-> <<>>]

\* The instances and requests of the two settings that are checked.
ConcurrentOptions ==
  {o \in RawOptions : /\ o.imageQuality = Null
                      /\ o.basePath = EmptyPath
                      /\ o.localPath = EmptyPath
                      /\ o.fileResizeRatio \in {Null, Some([i \in 1..MaxSizes |-> Size(i)])}}

\* The first call uploads its own parts, the second call others.
ConcurrentBodies(r) ==
  IF r = 1 THEN {<<PartPng>>, <<PartPng, PartText>>, <<PartText, PartPng>>}
  ELSE {<<>>, <<PartJpg>>, <<PartJpg, PartJpg>>}

\* The options that vary the quality and the allow-list, and the bodies of
\* one part they are tried on.
QualityInputs == {Null, Some(0), Some(1), Some(70), Some(100), Some(101)}

AllowExtensionInputs ==
  {Null, Some(<<>>), Some(<<<<"p", "d", "f">>>>),
   Some(<<<<"p", "n", "g">>, <<"p", "d", "f">>>>)}

WideOptions ==
  [fileCompression : BOOLEAN,
   fileResizeRatio : {Null, Some(<<Size(1)>>)},
   allowExtension  : AllowExtensionInputs,
   imageQuality    : QualityInputs,
   basePath        : {EmptyPath},
   localPath       : {EmptyPath}]

WideBodies ==
  {<<p>> : p \in {PartPng, PartJpg, PartText, PartGif, PartUpper, PartPdf}}

\* One call of one part, over the wider options.
InitInputs ==
  /\ options \in {Constructor(o) : o \in WideOptions}
  /\ now = 1700000000
  /\ disk = {}
  /\ req \in [{1} -> {IdleCall(b) : b \in WideBodies}]

\* One call on a freshly constructed instance.
Init ==
  /\ options \in {Constructor(o) : o \in RawOptions}
  /\ now = 1700000000
  /\ disk = {}
  /\ req \in [{1} -> {IdleCall(b) : b \in PartSeqs}]

\* Two calls on one instance, each with a body of its own parts.
InitConcurrent ==
  /\ options \in {Constructor(o) : o \in ConcurrentOptions}
  /\ now = 1700000000
  /\ disk = {}
  /\ \E b1 \in ConcurrentBodies(1), b2 \in ConcurrentBodies(2) :
       req = (1 :> IdleCall(b1)) @@ (2 :> IdleCall(b2))

Sizes == options.fileResizeRatio.val

\* fs write of sharp's toFile: the file at destination is created or replaced.
WriteFile(files, destination, bytes) ==
  {f \in files : f.destination # destination}
    \cup {[destination |-> destination, bytes |-> bytes]}

\* Mutant of Catch: the records collected so far are handed over with the error.
CatchWithPartial(s, err) ==
  [s EXCEPT !.pc = "done",
            !.calls = Append(@, [err |-> err, hasData |-> TRUE,
                                 data |-> s.uploadedImageDataArr, code |-> 0])]

\* catch (err) { callback(err) }
Catch(s, err) ==
  [s EXCEPT !.pc = "done", !.calls = Append(@, CallbackErr(err))]

\* Mutant of PushAll: unshift instead of push.
PushAllFront(s, uploadedImageData) ==
  [s EXCEPT !.pc = "loop", !.fi = @ + 1,
            !.uploadedImageDataArr = uploadedImageData \o @]

\* Mutant of PushAll: the array is a field of the instance, shared by the calls.
PushAllShared(s, uploadedImageData) ==
  [s EXCEPT !.pc = "loop", !.fi = @ + 1,
            !.uploadedImageDataArr =
               req[1].uploadedImageDataArr \o uploadedImageData]

\* uploadedImageDataArr.push(...uploadedImageData), then the next file.
PushAll(s, uploadedImageData) ==
  [s EXCEPT !.pc = "loop", !.fi = @ + 1,
            !.uploadedImageDataArr = @ \o uploadedImageData]

\* ----------------------------------------------------------------- actions
\* uploadFiles is called: upload.any() starts reading the body.
UploadFiles(r) ==
  /\ req[r].pc = "idle"
  /\ req' = [req EXCEPT ![r].pc = "decode"]
  /\ UNCHANGED <<options, now, disk>>

\* Mutant of AfterDecode: the filter's error is dropped and the loop runs.
AfterDecodeIgnoringFilter(s, malformed) ==
  IF malformed THEN Catch(s, DecoderError)
  ELSE [s EXCEPT !.pc = "loop", !.fi = 1,
                 !.files = [i \in 1..Len(s.body) |-> MulterFile(s.body[i])]]

\* The state of a call when multer's callback has run to its first await.
\* multer reports the first error it meets: the filter's for a rejected
\* part, its own when the body breaks off after its parts (malformed).
AfterDecode(s, malformed) ==
  IF FilterRejects(options, s.body) THEN Catch(s, InvalidFileType)
  ELSE IF malformed THEN Catch(s, DecoderError)
  ELSE [s EXCEPT !.pc = "loop", !.fi = 1,
                 !.files = [i \in 1..Len(s.body) |-> MulterFile(s.body[i])]]

\* multer calls back: with its error, the filter's error, or req.files set.
Decoded(r) ==
  /\ req[r].pc = "decode"
  /\ \E malformed \in BOOLEAN : req' = [req EXCEPT ![r] = AfterDecode(@, malformed)]
  /\ UNCHANGED <<options, now, disk>>

\* The else branch of the loop: a file that is no image is only renamed.
RenameOther(s, unix) ==
  [s EXCEPT !.fi = @ + 1,
            !.files[s.fi].filename = PassThroughName(s.files[s.fi], unix),
            !.files[s.fi].contenttype = s.files[s.fi].mimetype]

\* Mutant of PassThrough: the part's bytes are saved locally under its name.
PassThroughWriting(r) ==
  /\ req[r].pc = "loop"
  /\ req[r].fi <= Len(req[r].files)
  /\ ~IsImage(req[r].files[req[r].fi])
  /\ req' = [req EXCEPT ![r] = RenameOther(@, now)]
  /\ disk' = WriteFile(disk,
                       SingleDestination(options,
                                         PassThroughName(req[r].files[req[r].fi], now)),
                       req[r].files[req[r].fi].buffer)
  /\ UNCHANGED <<options, now>>

PassThrough(r) ==
  /\ req[r].pc = "loop"
  /\ req[r].fi <= Len(req[r].files)
  /\ ~IsImage(req[r].files[req[r].fi])
  /\ req' = [req EXCEPT ![r] = RenameOther(@, now)]
  /\ UNCHANGED <<options, now, disk>>

\* Mutant of StartImage: the passthrough toFile is not awaited, the record
\* is returned at once.
StartImageNoAwait(s, unix) ==
  LET file == EnterProcessImage(options, s.files[s.fi], unix)
  IN  IF InLoop(options)
      THEN IF Sizes = <<>>
           THEN PushAll([s EXCEPT !.files[s.fi] = file,
                                  !.bufferData = file.buffer,
                                  !.uploadDataList = <<>>], <<>>)
           ELSE [s EXCEPT !.pc = "transform", !.si = 1,
                          !.bufferData = file.buffer,
                          !.uploadDataList = <<>>,
                          !.files[s.fi] =
                             EnterIteration(options, file, Sizes[1], file.buffer, unix)]
      ELSE IF Branch(options) = "compress"
      THEN [s EXCEPT !.pc = "transform", !.uploadDataList = <<>>,
                     !.files[s.fi] = file]
      ELSE PushAll([s EXCEPT !.uploadDataList = <<>>, !.files[s.fi] = file],
                   <<FileData(file)>>)

\* processImage(file) up to its first await, or to its return when the
\* loop has nothing to iterate over.
StartImage(s, unix) ==
  LET file == EnterProcessImage(options, s.files[s.fi], unix)
  IN  IF InLoop(options)
      THEN IF Sizes = <<>>
           THEN PushAll([s EXCEPT !.files[s.fi] = file,
                                  !.bufferData = file.buffer,
                                  !.uploadDataList = <<>>], <<>>)
           ELSE [s EXCEPT !.pc = "transform", !.si = 1,
                          !.bufferData = file.buffer,
                          !.uploadDataList = <<>>,
                          !.files[s.fi] =
                             EnterIteration(options, file, Sizes[1], file.buffer, unix)]
      ELSE [s EXCEPT !.pc = IF Branch(options) = "compress" THEN "transform"
                            ELSE "write",
                     !.uploadDataList = <<>>,
                     !.files[s.fi] = file]

\* Mutant of ProcessImage: the resolved directory is cached in the options.
ProcessImageCachingPath(r) ==
  /\ req[r].pc = "loop"
  /\ req[r].fi <= Len(req[r].files)
  /\ IsImage(req[r].files[req[r].fi])
  /\ req' = [req EXCEPT ![r] = StartImage(@, now)]
  /\ options' = [options EXCEPT !.localPath = ResolveDir(DirName, options.localPath)]
  /\ UNCHANGED <<now, disk>>

ProcessImage(r) ==
  /\ req[r].pc = "loop"
  /\ req[r].fi <= Len(req[r].files)
  /\ IsImage(req[r].files[req[r].fi])
  /\ req' = [req EXCEPT ![r] = StartImage(@, now)]
  /\ UNCHANGED <<options, now, disk>>

\* The awaited transform resolves: file.buffer = output.
Transformed(s) ==
  [s EXCEPT !.pc = "write",
            !.files[s.fi].buffer =
               Transform(options, s.files[s.fi],
                         IF InLoop(options) THEN Sizes[s.si] ELSE <<0, 0>>)]

\* Whether the branch's transform hands sharp options it accepts.
TransformAccepted ==
  Branch(options) \in {"compressResize", "compress"} => JpegAccepts(options.imageQuality)

TransformSettled(r) ==
  /\ req[r].pc = "transform"
  /\ \E ok \in BOOLEAN :
       req' = [req EXCEPT ![r] = IF ok /\ TransformAccepted THEN Transformed(@)
                                 ELSE Catch(@, SharpError)]
  /\ UNCHANGED <<options, now, disk>>

\* The awaited toFile resolves: the record is pushed, then the next
\* iteration starts or processImage returns.
Written(s, unix) ==
  LET file == s.files[s.fi]
      t    == [s EXCEPT !.writes = Append(@, [destination |-> file.destination,
                                               bytes |-> SharpToFile(file.buffer)])]
      list == Append(s.uploadDataList, FileData(file))
  IN  IF InLoop(options)
      THEN IF s.si < Len(Sizes)
           THEN [t EXCEPT !.pc = "transform", !.si = @ + 1,
                          !.uploadDataList = list,
                          !.files[s.fi] =
                             EnterIteration(options, file, Sizes[s.si + 1],
                                            s.bufferData, unix)]
           ELSE PushAll([t EXCEPT !.uploadDataList = list], list)
      ELSE PushAll(t, <<FileData(file)>>)

\* Mutant of WriteSettled: a failed write unlinks what the call had written.
WriteSettledRollingBack(r) ==
  /\ req[r].pc = "write"
  /\ \E ok \in BOOLEAN :
       IF ok
       THEN /\ req' = [req EXCEPT ![r] = Written(@, now)]
            /\ disk' = WriteFile(disk, req[r].files[req[r].fi].destination,
                                 SharpToFile(req[r].files[req[r].fi].buffer))
       ELSE /\ req' = [req EXCEPT ![r] = Catch(@, SharpError)]
            /\ disk' = {f \in disk :
                          \A w \in 1..Len(req[r].writes) :
                            req[r].writes[w].destination # f.destination}
  /\ UNCHANGED <<options, now>>

WriteSettled(r) ==
  /\ req[r].pc = "write"
  /\ \E ok \in BOOLEAN :
       IF ok
       THEN /\ req' = [req EXCEPT ![r] = Written(@, now)]
            /\ disk' = WriteFile(disk, req[r].files[req[r].fi].destination,
                                 SharpToFile(req[r].files[req[r].fi].buffer))
       ELSE /\ req' = [req EXCEPT ![r] = Catch(@, SharpError)]
            /\ disk' = disk
  /\ UNCHANGED <<options, now>>

\* Mutant of Respond: an empty result is reported as an error.
RespondEmptyAsError(s, throws) ==
  IF s.uploadedImageDataArr = <<>> THEN Catch(s, InvalidFileType)
  ELSE [s EXCEPT !.pc = "done",
                 !.calls = Append(@, CallbackOk(s.uploadedImageDataArr))]

\* callback(null, {data, code: 200}) inside the try block: what the callback
\* throws is caught and handed to the callback again.
Respond(s, throws) ==
  LET t == [s EXCEPT !.pc = "done",
                     !.calls = Append(@, CallbackOk(s.uploadedImageDataArr))]
  IN  IF throws THEN Catch(t, CallbackError) ELSE t

Finish(r) ==
  /\ req[r].pc = "loop"
  /\ req[r].fi > Len(req[r].files)
  /\ \E throws \in BOOLEAN : req' = [req EXCEPT ![r] = Respond(@, throws)]
  /\ UNCHANGED <<options, now, disk>>

\* A second passes.
Tick ==
  /\ now < 1700000000 + MaxTicks
  /\ now' = now + 1
  /\ UNCHANGED <<options, disk, req>>

Step(r) ==
  \/ UploadFiles(r)
  \/ Decoded(r)
  \/ PassThrough(r)
  \/ ProcessImage(r)
  \/ TransformSettled(r)
  \/ WriteSettled(r)
  \/ Finish(r)

\* One call in flight.
Next == Step(1) \/ Tick

\* Two calls in flight within one second, interleaved at their awaits.
NextConcurrent == Step(1) \/ Step(2)

Spec == Init /\ [][Next]_vars
SpecInputs == InitInputs /\ [][Next]_vars
SpecConcurrent == InitConcurrent /\ [][NextConcurrent]_vars

\* ------------------------------------------------------------- properties
Calls == DOMAIN req
Done(r) == req[r].pc = "done"
\* The call ended with callback(null, {data, code: 200}) as its first report.
Succeeded(r) == Done(r) /\ req[r].calls[1].hasData
\* The image parts of a body, in request order.
Images(body) == SelectSeq(body, IsImage)

\* C1 (as claimed): whenever the loop of uploadFiles stands between two
\* files, every image handled so far has contributed as many records as
\* fileResizeRatio has pairs when it is present and non-empty, and exactly
\* one record otherwise (absent, null or empty).
ClaimedCount ==
  IF ~options.fileResizeRatio.null /\ Sizes # <<>> THEN Len(Sizes) ELSE 1

C1_RecordCountAsClaimed ==
  \A r \in Calls :
    req[r].pc = "loop" =>
      Len(req[r].uploadedImageDataArr) =
        ClaimedCount * Len(Images(SubSeq(req[r].body, 1, req[r].fi - 1)))

\* The seconds the clock can show.
Clock == 1700000000..(1700000000 + MaxTicks)

\* The number of records processImage returns for one image.
PerImage == IF InLoop(options) THEN Len(Sizes) ELSE 1

\* Whether record d was made from part p.
MadeFrom(d, p) ==
  /\ d.fieldname = p.fieldname
  /\ d.originalname = p.originalname
  /\ d.encoding = p.encoding
  /\ d.mimetype = p.mimetype

\* C2: on success the records are grouped by file in the order of req.files,
\* and within one image the k-th record is the one of the k-th pair of
\* fileResizeRatio: its file name carries that pair's width and height.
C2_RecordsOrdered ==
  \A r \in Calls :
    Succeeded(r) =>
      LET data == req[r].calls[1].data
          imgs == Images(req[r].body)
      IN  /\ Len(data) = PerImage * Len(imgs)
          /\ \A j \in 1..Len(imgs) : \A k \in 1..PerImage :
               LET d == data[(j - 1) * PerImage + k]
               IN  /\ MadeFrom(d, imgs[j])
                   /\ InLoop(options) =>
                        \E t \in Clock : d.filename = SizedName(imgs[j], Sizes[k], t)

\* Two images, two pairs each: four records have been reported.
C2_Witness ==
  /\ Succeeded(1)
  /\ InLoop(options)
  /\ Len(Sizes) >= 2
  /\ Len(Images(req[1].body)) = 2
  /\ req[1].body[1] # req[1].body[2]
  /\ Len(req[1].calls[1].data) = 4

\* C3 (as claimed): a call that has ended has invoked its callback exactly
\* once, and a call that has not ended has not invoked it.
C3_CallbackExactlyOnce ==
  \A r \in Calls :
    Len(req[r].calls) = IF Done(r) THEN 1 ELSE 0

\* C4: when a transform or a write of some file fails, the callback has
\* received the error and nothing else: no success object, and none of the
\* records collected before the failure.
ProcessingFailed(r) ==
  \E i \in 1..Len(req[r].calls) : req[r].calls[i].err = SharpError

C4_FailureReportsOnlyError ==
  \A r \in Calls :
    ProcessingFailed(r) =>
      /\ Done(r)
      /\ req[r].calls = <<CallbackErr(SharpError)>>
      /\ \A i \in 1..Len(req[r].calls) :
           ~req[r].calls[i].hasData /\ req[r].calls[i].data = <<>>

\* The second file failed at its second derivative, after the first file's
\* records had been collected and three files written.
C4_Witness ==
  /\ ProcessingFailed(1)
  /\ req[1].fi = 2
  /\ req[1].si = 2
  /\ req[1].uploadedImageDataArr # <<>>
  /\ Len(req[1].writes) = 3

\* C5: a call whose request holds a part the filter rejects never leaves the
\* decode step except to end; it ends with the filter's error object
\* {data: {}, code: 400} as the callback's only argument, processImage
\* is never started and nothing is written.
HasRejectedPart(r) ==
  \E i \in 1..Len(req[r].body) :
    /\ ~Contains(SplitPop(req[r].body[i].originalname), <<"j", "p", "e", "g">>)
    /\ ~Contains(SplitPop(req[r].body[i].originalname), <<"j", "p", "g">>)
    /\ ~Contains(SplitPop(req[r].body[i].originalname), <<"p", "n", "g">>)
    /\ ~Contains(req[r].body[i].mimetype, <<"j", "p", "e", "g">>)
    /\ ~Contains(req[r].body[i].mimetype, <<"j", "p", "g">>)
    /\ ~Contains(req[r].body[i].mimetype, <<"p", "n", "g">>)

C6_FileNamesDistinct ==
  \A r \in Calls :
    Succeeded(r) =>
      \A i, j \in 1..Len(req[r].calls[1].data) :
        i # j => req[r].calls[1].data[i].filename # req[r].calls[1].data[j].filename

\* C7 (as claimed): every record collected, in any branch, has the
\* destination resolve(basePath, localPath, fileName), and the bytes of the
\* derivative were written there.
C7_DestinationFromBasePath ==
  \A r \in Calls :
    \A i \in 1..Len(req[r].uploadedImageDataArr) :
      LET d == req[r].uploadedImageDataArr[i]
      IN  /\ d.destination = Resolve(options.basePath, options.localPath, d.filename)
          /\ \E w \in 1..Len(req[r].writes) :
               req[r].writes[w].destination = d.destination

\* C8 (as claimed): with neither fileCompression nor fileResizeRatio set,
\* an image has one record once processImage has returned, and the bytes
\* written at its destination are the bytes of the uploaded part.
C8_PassthroughKeepsBytes ==
  \A r \in Calls :
    (~options.fileCompression /\ options.fileResizeRatio.null /\ req[r].pc = "loop") =>
      LET imgs == Images(SubSeq(req[r].body, 1, req[r].fi - 1))
      IN  /\ Len(req[r].uploadedImageDataArr) = Len(imgs)
          /\ Len(req[r].writes) = Len(imgs)
          /\ \A j \in 1..Len(imgs) :
               /\ req[r].writes[j].destination = req[r].uploadedImageDataArr[j].destination
               /\ req[r].writes[j].bytes = imgs[j].buffer

\* What processImage returns for one image processed alone at second unix.
RecordsOf(part, unix) ==
  LET file == EnterProcessImage(options, MulterFile(part), unix)
  IN  IF InLoop(options)
      THEN [k \in 1..Len(Sizes) |->
              FileData(EnterIteration(options, file, Sizes[k], part.buffer, unix))]
      ELSE <<FileData(file)>>

RECURSIVE RecordsAlone(_, _)
\* What a call with this body reports when it runs alone at second unix.
RecordsAlone(body, unix) ==
  IF body = <<>> THEN <<>>
  ELSE (IF IsImage(Head(body)) THEN RecordsOf(Head(body), unix) ELSE <<>>)
         \o RecordsAlone(Tail(body), unix)

IsPrefix(a, b) == Len(a) <= Len(b) /\ SubSeq(b, 1, Len(a)) = a

\* C9: with two calls in flight on one instance, under every interleaving
\* of their awaits each call collects, in order, only the records it would
\* collect alone, and on success reports exactly those.
C9_CallsIsolated ==
  \A r \in Calls :
    /\ IsPrefix(req[r].uploadedImageDataArr, RecordsAlone(req[r].body, now))
    /\ Succeeded(r) => req[r].calls[1].data = RecordsAlone(req[r].body, now)
    /\ \A i \in 1..Len(req[r].files) :
         MadeFrom(req[r].files[i], req[r].body[i])

\* Both calls are in flight at once, each with records already collected.
C9_Witness ==
  /\ req[1].pc = "loop"
  /\ req[1].fi = 2
  /\ req[1].uploadedImageDataArr # <<>>
  /\ req[2].pc = "write"
  /\ req[2].fi = 2
  /\ req[2].uploadedImageDataArr # <<>>

\* C10: a request decoded to zero file parts is answered with
\* callback(null, {code: 200, data: []}) and writes no file.
C10_EmptyRequestSucceeds ==
  \A r \in Calls :
    (req[r].body = <<>> /\ Done(r) /\ req[r].calls[1].err # DecoderError) =>
      /\ req[r].calls[1] = CallbackOk(<<>>)
      /\ req[r].calls[1].err = NoError
      /\ req[r].calls[1].code = 200
      /\ req[r].writes = <<>>
      /\ disk = {}

C10_Witness ==
  /\ req[1].body = <<>>
  /\ req[1].files = <<>>
  /\ Done(1)
  /\ req[1].calls = <<CallbackOk(<<>>)>>

\* C11 (as claimed): construction leaves a quality in [1,100] in the
\* options, so no compress or compress-and-resize transform is ever
\* awaited with a quality outside [1,100].
C11_QualityInRange ==
  \A r \in Calls :
    (req[r].pc = "transform" /\ options.fileCompression) =>
      options.imageQuality \in 1..100

UpperChars == <<"A", "B", "C", "D", "E", "F", "G", "H", "I", "J", "K", "L", "M",
                "N", "O", "P", "Q", "R", "S", "T", "U", "V", "W", "X", "Y", "Z">>
LowerChars == <<"a", "b", "c", "d", "e", "f", "g", "h", "i", "j", "k", "l", "m",
                "n", "o", "p", "q", "r", "s", "t", "u", "v", "w", "x", "y", "z">>

\* text.toLowerCase()
ToLowerCase(text) ==
  [i \in 1..Len(text) |->
     IF \E k \in 1..26 : UpperChars[k] = text[i]
     THEN LowerChars[CHOOSE k \in 1..26 : UpperChars[k] = text[i]]
     ELSE text[i]]

\* The allow-list of the claim: the entries given, {jpeg, jpg, png} when absent.
AllowList ==
  IF options.allowExtension.null THEN DefaultExtensions
  ELSE {options.allowExtension.val[i] : i \in DOMAIN options.allowExtension.val}

\* Acceptance as claimed: some entry occurs in the lower-cased extension
\* or in the MIME type.
ClaimedAccepts(part) ==
  \E e \in AllowList :
    \/ Contains(ToLowerCase(SplitPop(part.originalname)), e)
    \/ Contains(part.mimetype, e)

\* The call ended with the filter's error.
Rejected(r) ==
  /\ Done(r)
  /\ req[r].calls[1].err = InvalidFileType

\* The decoder has called back, and not with an error of its own.
Decided(r) ==
  /\ req[r].pc \notin {"idle", "decode"}
  /\ ~(Done(r) /\ req[r].calls[1].err = DecoderError)

\* C12 (as claimed): once the decoder has called back, the request was
\* rejected by the filter exactly when some part of it fails the claimed
\* acceptance test.
C12_FilterAsClaimed ==
  \A r \in Calls :
    Decided(r) =>
      (Rejected(r) <=> \E i \in 1..Len(req[r].body) : ~ClaimedAccepts(req[r].body[i]))

\* C13 (as claimed): on success every accepted part that is no image has
\* a record of its own in data, named {field}_{timestamp}.{originalExtension}.
C13_NonImageRecorded ==
  \A r \in Calls :
    Succeeded(r) =>
      \A i \in 1..Len(req[r].body) :
        ~IsImage(req[r].body[i]) =>
          \E j \in 1..Len(req[r].calls[1].data) : \E t \in Clock :
            /\ MadeFrom(req[r].calls[1].data[j], req[r].body[i])
            /\ req[r].calls[1].data[j].filename = PassThroughName(req[r].body[i], t)

Overwritten(r, i) ==
  /\ IsImage(req[r].body[i])
  /\ Branch(options) # "passthrough"
  /\ \/ i < req[r].fi
     \/ i = req[r].fi /\ req[r].pc = "write"
     \/ i = req[r].fi /\ req[r].pc = "done" /\ req[r].files[i].buffer.gen > 0

C15_OptionsNeverChange == [][options' = options]_vars

\* Of two calls on the instance one has succeeded with records and the
\* other has failed while processing.
C15_Witness ==
  /\ Succeeded(1)
  /\ req[1].calls[1].data # <<>>
  /\ ProcessingFailed(2)
  /\ req[2].writes # <<>>
  /\ options \in {Constructor(o) : o \in ConcurrentOptions}

\* The writes of a call that no later write of it has replaced.
LastWrites(r) ==
  {req[r].writes[w] : w \in {v \in 1..Len(req[r].writes) :
     \A u \in (v + 1)..Len(req[r].writes) :
       req[r].writes[u].destination # req[r].writes[v].destination}}

\* C16: when a call has failed while processing, every file it had
\* written is on disk with the content written, nothing deleted, truncated
\* or rewritten, although the caller received no record.
C16_NoRollback ==
  \A r \in Calls :
    ProcessingFailed(r) =>
      /\ LastWrites(r) \subseteq disk
      /\ ~req[r].calls[1].hasData

\* A call failed at its second file after writing the first file's
\* derivatives: they are on disk and no record was returned.
C16_Witness ==
  /\ ProcessingFailed(1)
  /\ req[1].fi = 2
  /\ Len(req[1].writes) >= 2
  /\ disk # {}
  /\ LastWrites(1) \subseteq disk

\* C17: the step that handles an accepted part that is no image writes
\* nothing: the disk is the same before and after it, and all it does is
\* compute the pass-through file name.
C17_NonImageNoWrite ==
  [][\A r \in Calls :
       (/\ req[r].pc = "loop"
        /\ req[r].fi <= Len(req[r].files)
        /\ ~IsImage(req[r].files[req[r].fi])
        /\ req'[r] # req[r])
       => /\ disk' = disk
          /\ req'[r].writes = req[r].writes
          /\ req'[r].uploadedImageDataArr = req[r].uploadedImageDataArr
          /\ req'[r].files[req[r].fi].filename =
               PassThroughName(req[r].files[req[r].fi], now)
          /\ req'[r].files[req[r].fi].buffer = req[r].files[req[r].fi].buffer]_vars

\* An image was written, then the part after it, no image, was handled:
\* it has its name and the disk holds the image's file only.
C17_Witness ==
  /\ req[1].pc = "loop"
  /\ req[1].fi = 3
  /\ IsImage(req[1].files[1])
  /\ ~IsImage(req[1].files[2])
  /\ req[1].files[2].filename # <<>>
  /\ Cardinality(disk) = 1
  /\ Len(req[1].writes) = 1

\* Whether the call has completed a write to the record's destination.
HasWritten(r, d) ==
  \E w \in 1..Len(req[r].writes) :
    /\ req[r].writes[w].destination = d.destination
    /\ req[r].writes[w].destination.name = d.filename

\* C18: every record a call has collected, and so every record of data
\* when the callback is invoked with the success object, refers to a
\* destination that this call has already finished writing.
C18_WriteBeforeReport ==
  \A r \in Calls :
    /\ \A i \in 1..Len(req[r].uploadDataList) : HasWritten(r, req[r].uploadDataList[i])
    /\ \A i \in 1..Len(req[r].uploadedImageDataArr) :
         HasWritten(r, req[r].uploadedImageDataArr[i])
    /\ \A c \in 1..Len(req[r].calls) :
         \A i \in 1..Len(req[r].calls[c].data) : HasWritten(r, req[r].calls[c].data[i])

\* Two images compressed, written and reported.
C18_Witness ==
  /\ Succeeded(1)
  /\ Branch(options) = "compress"
  /\ Len(req[1].calls[1].data) = 2
  /\ Len(req[1].writes) = 2

\* C19: in both loop branches the transform of every pair, the first and
\* the later ones, is given the buffer the decoder produced, so what it
\* leaves to be written is that pair's transform of the decoded bytes.
C19_EachFromOriginal ==
  \A r \in Calls :
    InLoop(options) =>
      /\ req[r].pc = "transform" =>
           req[r].files[req[r].fi].buffer = req[r].body[req[r].fi].buffer
      /\ req[r].pc = "write" =>
           req[r].files[req[r].fi].buffer =
             Transform(options, MulterFile(req[r].body[req[r].fi]), Sizes[req[r].si])

\* The second pair's transform has resolved, after the first one's output
\* had been assigned to file.buffer and written.
C19_Witness ==
  /\ InLoop(options)
  /\ Len(Sizes) >= 2
  /\ req[1].pc = "write"
  /\ req[1].si = 2
  /\ Len(req[1].writes) >= 1
====
